---- MODULE Spec2Model ----
(***************************************************************************)
(* Model of cf_under_attack.py: one invocation of main() reconciles the    *)
(* 5-minute load, the cache file, the activation-timestamp file and the    *)
(* remote Cloudflare security level, and send_alert() is the rate-limited  *)
(* dispatcher.  Times are whole seconds as returned by int(time.time());   *)
(* loads and the threshold are in hundredths; a configured duration is     *)
(* held in half-seconds so that the int() truncation of the code is        *)
(* modelled and not assumed away.                                          *)
(***************************************************************************)
EXTENDS Integers, Sequences, FiniteSets, TLC

\* ------------------------------------------------------------------ bounds
MaxTick == 2          \* the clock runs over Epoch .. Epoch + MaxTick
Epoch == 10           \* first clock value (a Unix time, larger than any cooldown)

\* ------------------------------------------------------- program constants
UA == "under_attack"
LOW_LOAD_MODE == "medium"
LOAD_THRESHOLD == 700
Absent == 0 - 1       \* a file that does not exist

Modes == {UA, "medium", "essentially_off"}
Loads == {LOAD_THRESHOLD, 930}
CooldownChoices == {0, 5}        \* COOLDOWN_HOURS * 3600, in half-seconds
AlertCooldownChoices == {0, 5}   \* ALERT_COOLDOWN_MIN * 60, in half-seconds
Channels == {<<"slack", TRUE>>, <<"email", FALSE>>}

Configs ==
    {[file |-> f, COOLDOWN |-> 0, ALERT_MODE |-> "none", param |-> FALSE,
      ALERT_TS_FILE |-> TRUE, ALERT_COOLDOWN |-> 0] : f \in {"nofile", "nocreds"}}
    \cup
    {[file |-> "ok", COOLDOWN |-> c, ALERT_MODE |-> "none", param |-> FALSE,
      ALERT_TS_FILE |-> TRUE, ALERT_COOLDOWN |-> 0] : c \in CooldownChoices}
    \cup
    {[file |-> "ok", COOLDOWN |-> c, ALERT_MODE |-> ch[1], param |-> ch[2],
      ALERT_TS_FILE |-> tf, ALERT_COOLDOWN |-> ac] :
        c \in CooldownChoices, ch \in Channels, tf \in BOOLEAN, ac \in AlertCooldownChoices}

VARIABLES now, remote, cache, ts, alertTs, cfg, last, stamp, lastSent,
          pending, calm, sched, pc, loc, obs

\* the variables of the step-by-step view of an invocation and of the calm phase
aux == <<calm, sched, pc, loc, obs>>

vars == <<now, remote, cache, ts, alertTs, cfg, last, stamp, lastSent,
          pending, calm, sched, pc, loc, obs>>

\* ----------------------------------------------------------------- helpers
\* int(x) of a non-negative duration x given in half-seconds
int(halves) == halves \div 2

\* load_now > threshold
OverThresholdOrEqual(load_now, threshold) == load_now >= threshold
OverThreshold(load_now, threshold) == load_now > threshold

\* elapsed < cooldown_seconds
InCooldownInclusive(elapsed, cooldown_seconds) == elapsed <= cooldown_seconds
InCooldown(elapsed, cooldown_seconds) == elapsed < cooldown_seconds

\* cf_get_mode: "" when the request fails
cf_get_mode_default(readOk, rem) == IF readOk THEN rem ELSE LOW_LOAD_MODE
cf_get_mode(readOk, rem) == IF readOk THEN rem ELSE ""

\* cf_set_mode: the remote level after the PATCH
cf_set_mode_ignored(setOk, rem, value) == rem
cf_set_mode(setOk, rem, value) == IF setOk THEN value ELSE rem

\* ---------------------------------------------------------------- alerting
can_alert_off_by_one(tsf, cooldownHalf, fileTs, t) ==
    IF ~tsf THEN TRUE
    ELSE LET lastv == IF fileTs = Absent THEN 0 ELSE fileTs
         IN (t - lastv) + 1 >= int(cooldownHalf)
can_alert(tsf, cooldownHalf, fileTs, t) ==
    IF ~tsf THEN TRUE
    ELSE LET lastv == IF fileTs = Absent THEN 0 ELSE fileTs
         IN (t - lastv) >= int(cooldownHalf)

record_alert_ts_never(tsf, fileTs, t) == fileTs
record_alert_ts(tsf, fileTs, t) == IF tsf THEN t ELSE fileTs

\* the branch of send_alert that reaches a transport
ChannelSends(mode, param) == mode \in {"slack", "email", "command"} /\ param

\* one call of send_alert: the alert-timestamp file afterwards and what happened
send_alert(c, kind, fileTs, t) ==
    IF c.ALERT_MODE = "none"
    THEN [kind |-> kind, at |-> t, before |-> fileTs, after |-> fileTs,
          passed |-> FALSE, sent |-> FALSE]
    ELSE IF ~can_alert(c.ALERT_TS_FILE, c.ALERT_COOLDOWN, fileTs, t)
    THEN [kind |-> kind, at |-> t, before |-> fileTs, after |-> fileTs,
          passed |-> FALSE, sent |-> FALSE]
    ELSE [kind |-> kind, at |-> t, before |-> fileTs,
          after |-> record_alert_ts(c.ALERT_TS_FILE, fileTs, t),
          passed |-> TRUE, sent |-> ChannelSends(c.ALERT_MODE, c.param)]

\* ------------------------------------------------------------------- main
\* lines 283-295: manual override detection and cache sync
DriftSyncKeepsTs(c, actual_mode, st, t) ==
    IF actual_mode # st.cache
    THEN LET call == send_alert(c, "manual", st.alertTs, t)
         IN [cache |-> actual_mode, ts |-> st.ts, alertTs |-> call.after,
             drift |-> TRUE, stamped |-> FALSE, calls |-> <<call>>]
    ELSE [cache |-> st.cache, ts |-> st.ts, alertTs |-> st.alertTs,
          drift |-> FALSE, stamped |-> FALSE, calls |-> <<>>]
DriftSyncNoCacheWrite(c, actual_mode, st, t) ==
    IF actual_mode # st.cache
    THEN LET call == send_alert(c, "manual", st.alertTs, t)
         IN [cache |-> st.cache,
             ts |-> IF actual_mode = UA THEN t ELSE Absent,
             alertTs |-> call.after,
             drift |-> TRUE, stamped |-> actual_mode = UA, calls |-> <<call>>]
    ELSE [cache |-> st.cache, ts |-> st.ts, alertTs |-> st.alertTs,
          drift |-> FALSE, stamped |-> FALSE, calls |-> <<>>]
DriftSync(c, actual_mode, st, t) ==
    IF actual_mode # st.cache
    THEN LET call == send_alert(c, "manual", st.alertTs, t)
         IN [cache |-> actual_mode,
             ts |-> IF actual_mode = UA THEN t ELSE Absent,
             alertTs |-> call.after,
             drift |-> TRUE, stamped |-> actual_mode = UA, calls |-> <<call>>]
    ELSE [cache |-> st.cache, ts |-> st.ts, alertTs |-> st.alertTs,
          drift |-> FALSE, stamped |-> FALSE, calls |-> <<>>]

\* lines 297-313: target mode and the timestamp writes made while computing it
TargetModeDecayFirst(c, last_mode, tsFile, load_now, t) ==
    IF last_mode = UA /\ tsFile # Absent /\ ~InCooldown(t - tsFile, int(c.COOLDOWN))
    THEN [target |-> LOW_LOAD_MODE, ts |-> Absent, stamped |-> FALSE]
    ELSE IF OverThreshold(load_now, LOAD_THRESHOLD)
    THEN [target |-> UA,
          ts |-> IF last_mode # UA THEN t ELSE tsFile,
          stamped |-> last_mode # UA]
    ELSE IF last_mode = UA /\ tsFile # Absent
    THEN [target |-> UA, ts |-> tsFile, stamped |-> FALSE]
    ELSE [target |-> LOW_LOAD_MODE, ts |-> tsFile, stamped |-> FALSE]
TargetModeHoldWithoutTs(c, last_mode, tsFile, load_now, t) ==
    IF OverThreshold(load_now, LOAD_THRESHOLD)
    THEN [target |-> UA,
          ts |-> IF last_mode # UA THEN t ELSE tsFile,
          stamped |-> last_mode # UA]
    ELSE IF last_mode = UA
    THEN IF tsFile = Absent \/ InCooldown(t - tsFile, int(c.COOLDOWN))
         THEN [target |-> UA, ts |-> tsFile, stamped |-> FALSE]
         ELSE [target |-> LOW_LOAD_MODE, ts |-> Absent, stamped |-> FALSE]
    ELSE [target |-> LOW_LOAD_MODE, ts |-> tsFile, stamped |-> FALSE]
TargetModeKeepsOther(c, last_mode, tsFile, load_now, t) ==
    IF OverThreshold(load_now, LOAD_THRESHOLD)
    THEN [target |-> UA,
          ts |-> IF last_mode # UA THEN t ELSE tsFile,
          stamped |-> last_mode # UA]
    ELSE IF last_mode = UA /\ tsFile # Absent
    THEN IF InCooldown(t - tsFile, int(c.COOLDOWN))
         THEN [target |-> UA, ts |-> tsFile, stamped |-> FALSE]
         ELSE [target |-> LOW_LOAD_MODE, ts |-> Absent, stamped |-> FALSE]
    ELSE [target |-> IF last_mode = UA THEN LOW_LOAD_MODE ELSE last_mode,
          ts |-> tsFile, stamped |-> FALSE]
TargetModeRestamps(c, last_mode, tsFile, load_now, t) ==
    IF OverThreshold(load_now, LOAD_THRESHOLD)
    THEN [target |-> UA, ts |-> t, stamped |-> TRUE]
    ELSE IF last_mode = UA /\ tsFile # Absent
    THEN IF InCooldown(t - tsFile, int(c.COOLDOWN))
         THEN [target |-> UA, ts |-> tsFile, stamped |-> FALSE]
         ELSE [target |-> LOW_LOAD_MODE, ts |-> Absent, stamped |-> FALSE]
    ELSE [target |-> LOW_LOAD_MODE, ts |-> tsFile, stamped |-> FALSE]
TargetMode(c, last_mode, tsFile, load_now, t) ==
    IF OverThreshold(load_now, LOAD_THRESHOLD)
    THEN [target |-> UA,
          ts |-> IF last_mode # UA THEN t ELSE tsFile,
          stamped |-> last_mode # UA]
    ELSE IF last_mode = UA /\ tsFile # Absent
    THEN IF InCooldown(t - tsFile, int(c.COOLDOWN))
         THEN [target |-> UA, ts |-> tsFile, stamped |-> FALSE]
         ELSE [target |-> LOW_LOAD_MODE, ts |-> Absent, stamped |-> FALSE]
    ELSE [target |-> LOW_LOAD_MODE, ts |-> tsFile, stamped |-> FALSE]

\* lines 315-316: a mode change is applied only when the target differs
ApplyAlways(target_mode, last_mode) == TRUE
ApplyNeeded(target_mode, last_mode) == target_mode # last_mode

\* lines 321-326: the framing of the transition alert
AlertKindSwapped(target_mode) == IF target_mode = UA THEN "exited" ELSE "entered"
AlertKind(target_mode) == IF target_mode = UA THEN "entered" ELSE "exited"

\* an early return of main: nothing was written
Aborted(code, st, rem) ==
    [exit |-> code, cache |-> st.cache, ts |-> st.ts, alertTs |-> st.alertTs,
     remote |-> rem, drift |-> FALSE,
     mid |-> [cache |-> st.cache, ts |-> st.ts, alertTs |-> st.alertTs],
     target |-> "", setCalls |-> <<>>, setFailed |-> FALSE, calls |-> <<>>,
     stamped |-> FALSE, reads |-> IF code = 2 THEN 1 ELSE 0]

main(c, st, rem, t, load_now, readOk, setOk) ==
    IF c.file # "ok" THEN Aborted(1, st, rem)
    ELSE LET actual_mode == cf_get_mode(readOk, rem) IN
    IF actual_mode = "" THEN Aborted(2, st, rem)
    ELSE LET d == DriftSync(c, actual_mode, st, t)
             tm == TargetMode(c, d.cache, d.ts, load_now, t)
             mid == [cache |-> d.cache, ts |-> d.ts, alertTs |-> d.alertTs]
         IN IF ApplyNeeded(tm.target, d.cache)
            THEN IF setOk
                 THEN LET call == send_alert(c, AlertKind(tm.target), d.alertTs, t)
                      IN [exit |-> 0, cache |-> tm.target, ts |-> tm.ts,
                          alertTs |-> call.after,
                          remote |-> cf_set_mode(TRUE, rem, tm.target),
                          drift |-> d.drift, mid |-> mid, target |-> tm.target,
                          setCalls |-> <<tm.target>>, setFailed |-> FALSE,
                          calls |-> Append(d.calls, call),
                          stamped |-> d.stamped \/ tm.stamped, reads |-> 1]
                 ELSE [exit |-> 0, cache |-> d.cache, ts |-> tm.ts,
                       alertTs |-> d.alertTs,
                       remote |-> cf_set_mode(FALSE, rem, tm.target),
                       drift |-> d.drift, mid |-> mid, target |-> tm.target,
                       setCalls |-> <<tm.target>>, setFailed |-> TRUE,
                       calls |-> d.calls,
                       stamped |-> d.stamped \/ tm.stamped, reads |-> 1]
            ELSE [exit |-> 0, cache |-> d.cache, ts |-> tm.ts,
                  alertTs |-> d.alertTs, remote |-> rem,
                  drift |-> d.drift, mid |-> mid, target |-> tm.target,
                  setCalls |-> <<>>, setFailed |-> FALSE, calls |-> d.calls,
                  stamped |-> d.stamped \/ tm.stamped, reads |-> 1]

\* ------------------------------------------------- step-by-step invocations
\* the invocations that the scheduler may start without waiting for each other
Procs == {1, 2}

\* the local variables of main() before it has read anything
NoLocals ==
    [load |-> 0, actual |-> "", last_mode |-> "", target |-> "", newTs |-> Absent,
     kind |-> "", ret |-> "", exit |-> 0 - 1, setFailed |-> FALSE,
     start |-> [cache |-> "", ts |-> Absent, alertTs |-> Absent, remote |-> "",
                at |-> 0],
     endAt |-> 0, afterKill |-> FALSE, drift |-> FALSE, wrote |-> FALSE,
     raced |-> FALSE, chkGap |-> Absent, recAt |-> Absent, sentKinds |-> <<>>]

\* what has been observed of the invocations: the last two notifications
\* handed to a transport, the invocation that returned last, whether the
\* latest invocation to end was killed
NoObs == [sent |-> <<>>, finp |-> 0, killed |-> FALSE]

\* ------------------------------------------------------------ observations
NoRun ==
    [exit |-> 0 - 1, load |-> 0, at |-> 0,
     pre |-> [cache |-> "", ts |-> Absent, alertTs |-> Absent, remote |-> ""],
     drift |-> FALSE,
     mid |-> [cache |-> "", ts |-> Absent, alertTs |-> Absent],
     target |-> "", setCalls |-> <<>>, setFailed |-> FALSE, calls |-> <<>>,
     reads |-> 0, hystT |-> Absent, hystStayed |-> FALSE,
     prevSent |-> Absent, delivered |-> <<>>, readFailed |-> FALSE,
     prevTarget |-> "", prevSet |-> FALSE,
     pend |-> [target |-> "", over |-> FALSE, remote |-> ""]]

NoStamp == [at |-> Absent, stayed |-> FALSE]

\* no setMode call is waiting to be retried
NoPending == [target |-> "", over |-> FALSE, remote |-> ""]

\* the setMode call that failed in the latest run that got as far as Apply
PendingAfter(pnd, r, load_now) ==
    IF r.exit # 0 THEN pnd
    ELSE IF r.setFailed
    THEN [target |-> r.target, over |-> OverThreshold(load_now, LOAD_THRESHOLD),
          remote |-> r.remote]
    ELSE NoPending

\* the calls of send_alert that handed a notification to a transport
SentCalls(calls) == SelectSeq(calls, LAMBDA k : k.sent)

\* the target of the run just before, when it exited 0 without a setMode
\* failure and this run has the same load at the same clock value
PrevTarget(l, load_now) ==
    IF l.exit = 0 /\ ~l.setFailed /\ l.load = load_now THEN l.target ELSE ""

\* ------------------------------------------------------------------ system
Init ==
    /\ now = Epoch
    /\ remote \in Modes
    /\ cache = ""
    /\ ts = Absent
    /\ alertTs = Absent
    /\ cfg \in Configs
    /\ last = NoRun
    /\ stamp = NoStamp
    /\ lastSent = Absent
    /\ pending = NoPending
    /\ calm = FALSE
    /\ sched = "atomic"
    /\ pc = [p \in Procs |-> "idle"]
    /\ loc = [p \in Procs |-> NoLocals]
    /\ obs = NoObs

\* one invocation of the script by the scheduler
Run(load_now, readOk, setOk, chanOk) ==
    LET st == [cache |-> cache, ts |-> ts, alertTs |-> alertTs]
        r == main(cfg, st, remote, now, load_now, readOk, setOk)
        dstamp == r.drift /\ r.mid.cache = UA
    IN /\ cache' = r.cache
       /\ ts' = r.ts
       /\ alertTs' = r.alertTs
       /\ remote' = r.remote
       /\ stamp' = IF r.stamped
                   THEN [at |-> now, stayed |-> r.remote = UA]
                   ELSE [stamp EXCEPT !.stayed = stamp.stayed /\ r.remote = UA]
       /\ lastSent' = IF SentCalls(r.calls) = <<>> THEN lastSent ELSE now
       /\ last' = [exit |-> r.exit, load |-> load_now, at |-> now,
                   pre |-> [cache |-> cache, ts |-> ts, alertTs |-> alertTs,
                            remote |-> remote],
                   drift |-> r.drift, mid |-> r.mid, target |-> r.target,
                   setCalls |-> r.setCalls, setFailed |-> r.setFailed,
                   calls |-> r.calls, reads |-> r.reads,
                   hystT |-> IF dstamp THEN now ELSE stamp.at,
                   hystStayed |-> IF dstamp THEN TRUE ELSE stamp.stayed,
                   prevSent |-> lastSent,
                   delivered |-> [i \in 1..Len(SentCalls(r.calls)) |-> chanOk],
                   readFailed |-> cfg.file = "ok" /\ ~readOk,
                   prevTarget |-> PrevTarget(last, load_now),
                   prevSet |-> PrevTarget(last, load_now) # "" /\ last.setCalls # <<>>,
                   pend |-> pending]
       /\ pending' = PendingAfter(pending, r, load_now)
       /\ UNCHANGED <<now, cfg>>
       /\ UNCHANGED aux

\* the wall clock advances between invocations
Tick ==
    /\ now < Epoch + MaxTick
    /\ now' = now + 1
    /\ last' = NoRun
    /\ UNCHANGED <<remote, cache, ts, alertTs, cfg, stamp, lastSent, pending>>
    /\ UNCHANGED aux

\* an operator changes the security level outside the engine
OperatorSetsMode(m) ==
    /\ m # remote
    /\ remote' = m
    /\ stamp' = [stamp EXCEPT !.stayed = stamp.stayed /\ m = UA]
    /\ last' = NoRun
    /\ UNCHANGED <<now, cache, ts, alertTs, cfg, lastSent, pending>>
    /\ UNCHANGED aux

Next ==
    \/ \E l \in Loads, readOk \in BOOLEAN, setOk \in BOOLEAN, chanOk \in BOOLEAN :
          Run(l, readOk, setOk, chanOk)
    \/ Tick
    \/ \E m \in Modes : OperatorSetsMode(m)

Spec == Init /\ [][Next]_vars

\* ------------------------------------------------ one invocation, by steps
\* the configurations under which invocations are followed step by step
StepConfigs ==
    {c \in Configs : /\ c.file = "ok" /\ c.ALERT_MODE = "slack"
                     /\ c.ALERT_TS_FILE /\ c.ALERT_COOLDOWN = 5}

Quiet == \A p \in Procs : pc[p] = "idle"

ghosts == <<last, stamp, lastSent, pending, calm>>

LastTwo(log) == IF Len(log) > 2 THEN SubSeq(log, Len(log) - 1, Len(log)) ELSE log

\* lines 252-273: the scheduler starts the script, which reads its
\* configuration and the load
Start(p, load_now) ==
    /\ pc[p] = "idle"
    /\ sched # "concurrent" => Quiet /\ p = 1
    /\ p # 1 => pc[1] # "idle"
    /\ cfg.file = "ok"
    /\ pc' = [pc EXCEPT ![p] = "get"]
    /\ loc' = [loc EXCEPT ![p] =
                 [NoLocals EXCEPT !.load = load_now,
                                  !.start = IF sched = "killable"
                                            THEN [cache |-> cache, ts |-> ts,
                                                  alertTs |-> alertTs,
                                                  remote |-> remote, at |-> now]
                                            ELSE NoLocals.start,
                                  !.afterKill = obs.killed]]
    /\ obs' = [obs EXCEPT !.finp = 0]
    /\ UNCHANGED <<now, remote, cache, ts, alertTs, cfg, sched>>
    /\ UNCHANGED ghosts

\* lines 275-278: cf_get_mode
GetMode(p, readOk) ==
    /\ pc[p] = "get"
    /\ LET actual_mode == cf_get_mode(readOk, remote)
       IN IF actual_mode = ""
          THEN /\ pc' = [pc EXCEPT ![p] = "end"]
               /\ loc' = [loc EXCEPT ![p].exit = 2]
          ELSE /\ pc' = [pc EXCEPT ![p] = "readcache"]
               /\ loc' = [loc EXCEPT ![p].actual = actual_mode]
    /\ UNCHANGED <<now, remote, cache, ts, alertTs, cfg, sched, obs>>
    /\ UNCHANGED ghosts

\* lines 281-285: read the cache file and compare
ReadCache(p) ==
    /\ pc[p] = "readcache"
    /\ LET d == DriftSync(cfg, loc[p].actual,
                          [cache |-> cache, ts |-> ts, alertTs |-> alertTs], now)
       IN /\ pc' = [pc EXCEPT ![p] = IF d.drift THEN "sync_cache" ELSE "target"]
          /\ loc' = [loc EXCEPT ![p].last_mode = cache, ![p].drift = d.drift]
    /\ UNCHANGED <<now, remote, cache, ts, alertTs, cfg, sched, obs>>
    /\ UNCHANGED ghosts

\* lines 286-287: write the cache file
SyncCache(p) ==
    /\ pc[p] = "sync_cache"
    /\ LET d == DriftSync(cfg, loc[p].actual,
                          [cache |-> loc[p].last_mode, ts |-> ts,
                           alertTs |-> alertTs], now)
       IN cache' = d.cache
    /\ pc' = [pc EXCEPT ![p] = "sync_ts"]
    /\ loc' = [loc EXCEPT ![p].last_mode = loc[p].actual]
    /\ UNCHANGED <<now, remote, ts, alertTs, cfg, sched, obs>>
    /\ UNCHANGED ghosts

\* lines 288-295: write or remove the timestamp file, then call send_alert
SyncTs(p) ==
    /\ pc[p] = "sync_ts"
    /\ LET d == DriftSync(cfg, loc[p].actual,
                          [cache |-> "", ts |-> ts, alertTs |-> alertTs], now)
       IN ts' = d.ts
    /\ pc' = [pc EXCEPT ![p] = "al_check"]
    /\ loc' = [loc EXCEPT ![p].kind = "manual", ![p].ret = "target"]
    /\ UNCHANGED <<now, remote, cache, alertTs, cfg, sched, obs>>
    /\ UNCHANGED ghosts

\* lines 224-231: the channel test and can_alert
AlCheck(p) ==
    /\ pc[p] = "al_check"
    /\ LET k == send_alert(cfg, loc[p].kind, alertTs, now)
           gap == IF loc[p].recAt = Absent THEN Absent ELSE now - loc[p].recAt
       IN IF k.passed
          THEN /\ pc' = [pc EXCEPT ![p] = "al_send"]
               /\ loc' = [loc EXCEPT
                     ![p].raced = \E q \in Procs \ {p} : pc[q] \in {"al_send", "al_record"},
                     ![p].chkGap = gap,
                     ![p].recAt = Absent]
          ELSE /\ pc' = [pc EXCEPT ![p] = loc[p].ret]
               /\ loc' = [loc EXCEPT ![p].chkGap = gap, ![p].recAt = Absent]
    /\ UNCHANGED <<now, remote, cache, ts, alertTs, cfg, sched, obs>>
    /\ UNCHANGED ghosts

\* lines 233-245: hand the message to the transport of the channel
AlSend(p) ==
    /\ pc[p] = "al_send"
    /\ pc' = [pc EXCEPT ![p] = "al_record"]
    /\ IF ChannelSends(cfg.ALERT_MODE, cfg.param)
       THEN /\ loc' = [loc EXCEPT ![p].sentKinds = Append(loc[p].sentKinds, loc[p].kind)]
            /\ obs' = [obs EXCEPT !.sent = LastTwo(Append(obs.sent, [at |-> now, by |-> p]))]
       ELSE UNCHANGED <<loc, obs>>
    /\ UNCHANGED <<now, remote, cache, ts, alertTs, cfg, sched>>
    /\ UNCHANGED ghosts

\* line 247: record_alert_ts
AlRecord(p) ==
    /\ pc[p] = "al_record"
    /\ alertTs' = record_alert_ts(cfg.ALERT_TS_FILE, alertTs, now)
    /\ pc' = [pc EXCEPT ![p] = loc[p].ret]
    /\ loc' = [loc EXCEPT ![p].recAt = IF loc[p].ret = "end" THEN Absent ELSE now]
    /\ UNCHANGED <<now, remote, cache, ts, cfg, sched, obs>>
    /\ UNCHANGED ghosts

\* lines 297-313, the reads: the load test, isfile and read_file of the
\* timestamp file, and the decision
Target(p) ==
    /\ pc[p] = "target"
    /\ LET tm == TargetMode(cfg, loc[p].last_mode, ts, loc[p].load, now)
       IN /\ loc' = [loc EXCEPT ![p].target = tm.target, ![p].newTs = tm.ts]
          /\ pc' = [pc EXCEPT ![p] =
                      IF tm.ts # ts THEN "write_ts"
                      ELSE IF ApplyNeeded(tm.target, loc[p].last_mode) THEN "apply"
                      ELSE "end"]
    /\ UNCHANGED <<now, remote, cache, ts, alertTs, cfg, sched, obs>>
    /\ UNCHANGED ghosts

\* line 302 or line 313: write or remove the timestamp file
WriteTs(p) ==
    /\ pc[p] = "write_ts"
    /\ ts' = loc[p].newTs
    /\ pc' = [pc EXCEPT ![p] =
                IF ApplyNeeded(loc[p].target, loc[p].last_mode) THEN "apply" ELSE "end"]
    /\ UNCHANGED <<now, remote, cache, alertTs, cfg, sched, loc, obs>>
    /\ UNCHANGED ghosts

\* lines 317-319 and 327-328: cf_set_mode
Apply(p, setOk) ==
    /\ pc[p] = "apply"
    /\ remote' = cf_set_mode(setOk, remote, loc[p].target)
    /\ pc' = [pc EXCEPT ![p] = IF setOk THEN "write_cache" ELSE "end"]
    /\ loc' = [loc EXCEPT ![p].setFailed = ~setOk]
    /\ UNCHANGED <<now, cache, ts, alertTs, cfg, sched, obs>>
    /\ UNCHANGED ghosts

\* lines 320-326: write the cache file, then call send_alert
WriteCache(p) ==
    /\ pc[p] = "write_cache"
    /\ cache' = loc[p].target
    /\ pc' = [pc EXCEPT ![p] = "al_check"]
    /\ loc' = [loc EXCEPT ![p].kind = AlertKind(loc[p].target), ![p].ret = "end",
                          ![p].wrote = TRUE]
    /\ UNCHANGED <<now, remote, ts, alertTs, cfg, sched, obs>>
    /\ UNCHANGED ghosts

\* lines 278 and 330: main returns
Return(p) ==
    /\ pc[p] = "end"
    /\ pc' = [pc EXCEPT ![p] = "idle"]
    /\ loc' = [loc EXCEPT ![p] =
                 IF sched = "killable"
                 THEN [NoLocals EXCEPT !.exit = IF loc[p].exit = 2 THEN 2 ELSE 0,
                                       !.setFailed = loc[p].setFailed,
                                       !.load = loc[p].load,
                                       !.target = loc[p].target,
                                       !.start = loc[p].start,
                                       !.afterKill = loc[p].afterKill,
                                       !.endAt = now]
                 ELSE [NoLocals EXCEPT !.exit = IF loc[p].exit = 2 THEN 2 ELSE 0,
                                       !.setFailed = loc[p].setFailed]]
    /\ obs' = [obs EXCEPT !.finp = p, !.killed = FALSE]
    /\ UNCHANGED <<now, remote, cache, ts, alertTs, cfg, sched>>
    /\ UNCHANGED ghosts

\* the process is killed between two of its steps; its locals are lost
Kill(p) ==
    /\ sched = "killable"
    /\ pc[p] # "idle"
    /\ pc' = [pc EXCEPT ![p] = "idle"]
    /\ loc' = [loc EXCEPT ![p] = NoLocals]
    /\ obs' = [obs EXCEPT !.finp = 0, !.killed = TRUE]
    /\ UNCHANGED <<now, remote, cache, ts, alertTs, cfg, sched>>
    /\ UNCHANGED ghosts

\* the wall clock advances, also while an invocation is under way (two
\* overlapping invocations are followed within one clock second)
StepTick ==
    /\ now < Epoch + MaxTick
    /\ sched # "concurrent"
    /\ now' = now + 1
    /\ UNCHANGED <<remote, cache, ts, alertTs, cfg, sched, pc, loc, obs>>
    /\ UNCHANGED ghosts

InitSteps ==
    /\ now = Epoch
    /\ remote \in Modes
    /\ cache = ""
    /\ ts = Absent
    /\ alertTs = Absent
    /\ cfg \in StepConfigs
    /\ last = NoRun
    /\ stamp = NoStamp
    /\ lastSent = Absent
    /\ pending = NoPending
    /\ calm = FALSE
    /\ sched \in {"serial", "killable", "concurrent"}
    /\ pc = [p \in Procs |-> "idle"]
    /\ loc = [p \in Procs |-> NoLocals]
    /\ obs = NoObs

NextSteps ==
    \/ \E p \in Procs, l \in Loads : Start(p, l)
    \/ \E p \in Procs, readOk \in BOOLEAN : GetMode(p, readOk)
    \/ \E p \in Procs : ReadCache(p)
    \/ \E p \in Procs : SyncCache(p)
    \/ \E p \in Procs : SyncTs(p)
    \/ \E p \in Procs : AlCheck(p)
    \/ \E p \in Procs : AlSend(p)
    \/ \E p \in Procs : AlRecord(p)
    \/ \E p \in Procs : Target(p)
    \/ \E p \in Procs : WriteTs(p)
    \/ \E p \in Procs, setOk \in BOOLEAN : Apply(p, setOk)
    \/ \E p \in Procs : WriteCache(p)
    \/ \E p \in Procs : Return(p)
    \/ \E p \in Procs : Kill(p)
    \/ StepTick

SpecSteps == InitSteps /\ [][NextSteps]_vars

\* ------------------------------------- serialized invocations, repeated
\* From some invocation on, the load stays at or below the threshold, the
\* remote reads succeed and no operator changes the remote mode.  The calm
\* phase is entered right after an invocation that returned 0 under low
\* load, early enough for the cooldown to elapse within the modelled clock.
Calm ==
    /\ ~calm
    /\ last.exit = 0
    /\ ~OverThreshold(last.load, LOAD_THRESHOLD)
    /\ now + int(cfg.COOLDOWN) <= Epoch + MaxTick
    /\ calm' = TRUE
    /\ UNCHANGED <<now, remote, cache, ts, alertTs, cfg, sched, pc, loc, obs>>
    /\ UNCHANGED <<last, stamp, lastSent, pending>>

\* an invocation before the calm phase
StormRun(load_now, readOk, setOk, chanOk) ==
    ~calm /\ Run(load_now, readOk, setOk, chanOk)

\* an operator changes the security level before the calm phase
StormOperator(m) == ~calm /\ OperatorSetsMode(m)

\* an invocation of the calm phase: low load, the remote read succeeds
CalmRun(setOk, chanOk) ==
    /\ calm
    /\ \E l \in Loads : /\ ~OverThreshold(l, LOAD_THRESHOLD)
                        /\ Run(l, TRUE, setOk, chanOk)

\* a readable configuration; alerting, which has no part in the mode
\* decision, is fixed to one channel
InitLive == Init /\ cfg \in StepConfigs

NextLive ==
    \/ \E l \in Loads, readOk \in BOOLEAN, setOk \in BOOLEAN, chanOk \in BOOLEAN :
          StormRun(l, readOk, setOk, chanOk)
    \/ \E m \in Modes : StormOperator(m)
    \/ Tick
    \/ Calm
    \/ \E setOk \in BOOLEAN, chanOk \in BOOLEAN : CalmRun(setOk, chanOk)

\* the scheduler keeps invoking the script, the clock keeps advancing, and
\* cf_set_mode does not fail forever
Fairness ==
    /\ WF_vars(Tick)
    /\ WF_vars(\E chanOk \in BOOLEAN : CalmRun(TRUE, chanOk))

SpecLive == InitLive /\ [][NextLive]_vars /\ Fairness

Ran == last.exit # 0 - 1

\* ------------------------------------------------------------------ claims
\* C1: hysteresis.  When the activation timestamp was last stamped at T
\* (by this run's drift sync or by an earlier run), the remote mode has been
\* under_attack ever since and load <= threshold, a run at now < T + C
\* (C = cooldown_seconds) targets under_attack and calls setMode zero times;
\* a run at now >= T + C targets LOW_LOAD_MODE, leaves no activation
\* timestamp and calls setMode(LOW_LOAD_MODE) once -- earlier failed setMode
\* calls included.
C1_Hysteresis ==
    (last.exit = 0 /\ last.load <= LOAD_THRESHOLD /\ last.hystT # Absent
        /\ last.hystStayed /\ last.hystT <= last.at)
    => IF last.at < last.hystT + int(cfg.COOLDOWN)
       THEN last.target = UA /\ last.setCalls = <<>>
       ELSE /\ last.target = LOW_LOAD_MODE
            /\ ts = Absent
            /\ last.setCalls = <<LOW_LOAD_MODE>>

\* a later run inside the window that held under_attack with a low load
C1_Witness ==
    /\ last.exit = 0 /\ last.load <= LOAD_THRESHOLD /\ last.hystStayed
    /\ last.hystT # Absent /\ last.hystT < last.at
    /\ last.at < last.hystT + int(cfg.COOLDOWN)
    /\ ~last.drift /\ last.target = UA

\* the window has elapsed, an earlier exit attempt failed (the timestamp file
\* is already gone) and the run retries setMode(LOW_LOAD_MODE)
C1_WitnessExpiry ==
    /\ last.exit = 0 /\ last.load <= LOAD_THRESHOLD /\ last.hystStayed
    /\ last.hystT # Absent /\ last.at >= last.hystT + int(cfg.COOLDOWN)
    /\ int(cfg.COOLDOWN) > 0 /\ last.pre.ts = Absent
    /\ last.setCalls = <<LOW_LOAD_MODE>>

\* C2: drift detection.  When the remote read succeeds and the remote mode
\* differs from the cache, then before the target is computed the cache holds
\* the remote mode and the activation timestamp is now (remote under_attack)
\* or absent (otherwise), whatever the load; the target and the need for
\* setMode are those computed from the remote mode as the cached mode.
C2_DriftSync ==
    (last.exit = 0 /\ last.pre.remote # last.pre.cache)
    => /\ last.drift
       /\ last.mid.cache = last.pre.remote
       /\ last.mid.ts = (IF last.pre.remote = UA THEN last.at ELSE Absent)
       /\ last.target =
            TargetMode(cfg, last.pre.remote, last.mid.ts, last.load, last.at).target
       /\ (last.setCalls = <<>>) <=> (last.target = last.pre.remote)

\* an operator switched under_attack off while the load is over the threshold
C2_Witness ==
    /\ last.exit = 0 /\ last.drift
    /\ last.pre.cache = UA /\ last.pre.ts # Absent
    /\ last.pre.remote = "essentially_off"
    /\ last.load > LOAD_THRESHOLD
    /\ last.mid.ts = Absent

\* C3: in a run whose setMode call failed, the cache file, the activation
\* timestamp and the alert timestamp are what they were just before the
\* target computation.
C3_WriteFailureLeavesState ==
    last.setFailed
    => /\ cache = last.mid.cache
       /\ ts = last.mid.ts
       /\ alertTs = last.mid.alertTs

\* C4: after every completed run the activation timestamp is present
\* exactly when the cached mode is under_attack.
C4_TimestampIffUnderAttack ==
    Ran => ((ts # Absent) <=> (cache = UA))

\* C5: a run that directly follows a run that exited 0 without a setMode
\* failure, with the same load, the same clock value and the same remote
\* mode, computes the same target, calls setMode zero times, hands nothing
\* to the dispatcher and leaves the three files unchanged.
C5_Idempotent ==
    (last.prevTarget # "" /\ last.exit = 0)
    => /\ last.target = last.prevTarget
       /\ last.setCalls = <<>>
       /\ last.calls = <<>>
       /\ cache = last.pre.cache
       /\ ts = last.pre.ts
       /\ alertTs = last.pre.alertTs

\* the second of two back-to-back runs, the first of which changed the mode
C5_Witness ==
    /\ last.prevTarget = UA /\ last.prevSet /\ last.exit = 0
    /\ last.load > LOAD_THRESHOLD

\* C6 as stated: a run whose target equals the cached mode at the Apply step
\* calls setMode zero times and fires no alert at all during the run.
C6_NoAlertInNoOpRun ==
    (last.exit = 0 /\ last.target = last.mid.cache)
    => last.setCalls = <<>> /\ last.calls = <<>>

\* C6 amended: a run whose target equals the cached mode at the Apply step
\* calls setMode zero times and hands no entered/exited alert to the
\* dispatcher; the only alert of such a run is the manual-change alert of its
\* own drift sync, and without drift there is none.
C6_NoOpAtApply ==
    (last.exit = 0 /\ last.target = last.mid.cache)
    => /\ last.setCalls = <<>>
       /\ \A i \in 1..Len(last.calls) : last.calls[i].kind = "manual"
       /\ (~last.drift => last.calls = <<>>)

\* a no-op at the Apply step in a run whose drift sync sent a notification
C6_Witness ==
    /\ last.exit = 0 /\ last.target = last.mid.cache /\ last.drift
    /\ Len(last.calls) = 1 /\ last.calls[1].sent

\* C7: monotonic entry.  When the remote read succeeds and load > threshold
\* the target is under_attack whatever the cache, the timestamp and the
\* elapsed cooldown are; setMode is called exactly when the drift-synced
\* cached mode is not under_attack, and only ever with under_attack.
C7_MonotonicEntry ==
    (last.exit = 0 /\ last.load > LOAD_THRESHOLD)
    => /\ last.target = UA
       /\ last.setCalls = (IF last.mid.cache # UA THEN <<UA>> ELSE <<>>)

\* load over the threshold while the cooldown of the current window is over
C7_Witness ==
    /\ last.exit = 0 /\ last.load > LOAD_THRESHOLD
    /\ last.mid.cache = UA /\ last.mid.ts # Absent
    /\ last.at - last.mid.ts >= int(cfg.COOLDOWN)
    /\ last.target = UA /\ last.setCalls = <<>>

\* C8: a run without zone identifier or credential exits 1 before any
\* remote call, a run whose remote read fails exits 2, both leave the three
\* files alone, call setMode zero times and fire no alert; every other run
\* exits 0, setMode and delivery failures included.
C8_FatalAborts ==
    Ran
    => /\ (cfg.file # "ok" => last.exit = 1 /\ last.reads = 0)
       /\ (last.readFailed => last.exit = 2)
       /\ (last.exit \in {1, 2}
             => /\ cache = last.pre.cache /\ ts = last.pre.ts
                /\ alertTs = last.pre.alertTs /\ remote = last.pre.remote
                /\ last.setCalls = <<>> /\ last.calls = <<>>)
       /\ (cfg.file = "ok" /\ ~last.readFailed => last.exit = 0)

\* the remote read failed in the middle of an under_attack window
C8_Witness ==
    /\ last.exit = 2 /\ last.readFailed
    /\ cache = UA /\ ts # Absent /\ remote # UA /\ last.load > LOAD_THRESHOLD

\* ----------------------------------------------------- claims on alerting
\* the time of the last notification handed to a transport before call i
PrevSentBefore(i) ==
    IF \E j \in 1..(i - 1) : last.calls[j].sent THEN last.at ELSE last.prevSent

ActiveChannel == ChannelSends(cfg.ALERT_MODE, cfg.param)

\* C9 as stated: with an active channel, a dispatcher call less than
\* cooldownMinutes*60 seconds after a notification was handed to the
\* transport sends nothing.
C9_SuppressedWithinCooldown ==
    ActiveChannel
    => \A i \in 1..Len(last.calls) :
          (PrevSentBefore(i) # Absent
              /\ 2 * (last.calls[i].at - PrevSentBefore(i)) < cfg.ALERT_COOLDOWN)
          => ~last.calls[i].sent

\* C9 amended: with an active channel and a non-empty alert-timestamp file
\* path, a dispatcher call less than int(cooldownMinutes*60) seconds after a
\* notification was handed to the transport sends nothing, so that any two
\* notifications handed to the transport are at least int(cooldownMinutes*60)
\* seconds apart.
C9_SuppressedWithinWindow ==
    (ActiveChannel /\ cfg.ALERT_TS_FILE)
    => \A i \in 1..Len(last.calls) :
          (PrevSentBefore(i) # Absent
              /\ last.calls[i].at - PrevSentBefore(i) < int(cfg.ALERT_COOLDOWN))
          => ~last.calls[i].passed /\ ~last.calls[i].sent

\* a call suppressed in a later run, one second after a sent notification
C9_Witness ==
    /\ ActiveChannel /\ cfg.ALERT_TS_FILE
    /\ Len(last.calls) = 1 /\ ~last.calls[1].sent
    /\ last.prevSent # Absent /\ last.at = last.prevSent + 1

\* C10 as stated: a call that passes the rate limit with a channel other
\* than none leaves lastAlertAt = now; a suppressed call, or any call with
\* channel none, sends nothing and leaves lastAlertAt as it was.
C10_CooldownResetAlways ==
    \A i \in 1..Len(last.calls) :
       LET k == last.calls[i]
       IN IF k.passed THEN k.after = k.at
          ELSE k.after = k.before /\ ~k.sent

\* C10 amended: with a non-empty alert-timestamp file path, a call that
\* passes the rate limit with a channel other than none leaves
\* lastAlertAt = now whether the delivery succeeded, failed or was not even
\* attempted; a suppressed call, or any call with channel none, sends nothing
\* and leaves lastAlertAt as it was.
C10_CooldownReset ==
    \A i \in 1..Len(last.calls) :
       LET k == last.calls[i]
       IN /\ k.passed <=> (cfg.ALERT_MODE # "none"
                            /\ can_alert(cfg.ALERT_TS_FILE, cfg.ALERT_COOLDOWN,
                                         k.before, k.at))
          /\ IF k.passed
             THEN cfg.ALERT_TS_FILE => k.after = k.at
             ELSE k.after = k.before /\ ~k.sent
          /\ (i = Len(last.calls) => alertTs = k.after)

\* the transport failed, yet the alert cooldown was restarted
C10_Witness ==
    /\ cfg.ALERT_TS_FILE
    /\ Len(last.calls) = 1 /\ last.calls[1].sent
    /\ last.delivered = <<FALSE>>
    /\ last.calls[1].before # Absent /\ last.calls[1].before < last.at
    /\ alertTs = last.at

\* ------------------------------------------------ claims on retry and modes
\* C11: when setMode(X) failed in the latest run that reached the Apply
\* step, the next run that reads the same remote mode with a load on the
\* same side of the threshold computes target X again and calls setMode(X).
C11_RetryNextRun ==
    (last.exit = 0 /\ last.pend.target # ""
        /\ last.pre.remote = last.pend.remote
        /\ OverThreshold(last.load, LOAD_THRESHOLD) = last.pend.over)
    => /\ last.target = last.pend.target
       /\ last.setCalls = <<last.pend.target>>

\* the exit from under_attack failed after the failed run had removed the
\* timestamp file; the next run retries it
C11_Witness ==
    /\ last.exit = 0 /\ last.pend.target = LOW_LOAD_MODE
    /\ last.pre.remote = UA /\ last.pend.remote = UA
    /\ last.pre.cache = UA /\ last.pre.ts = Absent
    /\ int(cfg.COOLDOWN) > 0
    /\ last.setCalls = <<LOW_LOAD_MODE>>

\* C13: at the end of every run that exits 0 the cache file holds the remote
\* mode, whether setMode was not needed, succeeded or failed, and the target
\* computation of that run started from a cached mode equal to the remote
\* mode.
C13_CacheEqualsRemote ==
    last.exit = 0
    => /\ cache = remote
       /\ last.mid.cache = last.pre.remote

\* a run that found drift and whose setMode call failed
C13_Witness ==
    /\ last.exit = 0 /\ last.drift /\ last.setFailed
    /\ last.pre.cache # "" /\ cache = remote

\* C14 as stated: when the remote mode read by a run is not under_attack and
\* load <= threshold, setMode is called zero times and the remote mode is
\* the same at the end of the run.
C14_OtherModeAccepted ==
    (last.exit = 0 /\ last.pre.remote # UA /\ last.load <= LOAD_THRESHOLD)
    => /\ last.setCalls = <<>>
       /\ remote = last.pre.remote

\* C14 amended: when the remote mode M read by a run is not under_attack and
\* load <= threshold, M is taken into the cache without validation but the
\* target is LOW_LOAD_MODE: setMode is called zero times and the remote mode
\* stays M only if M = LOW_LOAD_MODE; otherwise setMode(LOW_LOAD_MODE) is
\* called once and the remote mode ends as LOW_LOAD_MODE if the call
\* succeeds, as M if it fails.
C14_OtherModeReset ==
    (last.exit = 0 /\ last.pre.remote # UA /\ last.load <= LOAD_THRESHOLD)
    => /\ last.mid.cache = last.pre.remote
       /\ last.target = LOW_LOAD_MODE
       /\ IF last.pre.remote = LOW_LOAD_MODE
          THEN last.setCalls = <<>> /\ remote = last.pre.remote
          ELSE /\ last.setCalls = <<LOW_LOAD_MODE>>
               /\ remote = (IF last.setFailed THEN last.pre.remote ELSE LOW_LOAD_MODE)

\* an operator-chosen posture is replaced by LOW_LOAD_MODE at low load
C14_Witness ==
    /\ last.exit = 0 /\ last.pre.remote = "essentially_off"
    /\ last.load <= LOAD_THRESHOLD /\ ~last.setFailed
    /\ last.setCalls = <<LOW_LOAD_MODE>> /\ remote = LOW_LOAD_MODE

\* C15: in a run without drift whose cached mode is already under_attack
\* and whose load is over the threshold, the activation timestamp, the cache
\* and the alert timestamp are left as they were, and nothing is sent.
C15_StampOnlyOnEntry ==
    (last.exit = 0 /\ ~last.drift /\ last.pre.cache = UA
        /\ last.load > LOAD_THRESHOLD)
    => /\ cache = last.pre.cache
       /\ ts = last.pre.ts
       /\ alertTs = last.pre.alertTs
       /\ last.setCalls = <<>> /\ last.calls = <<>>

\* a later over-threshold sample inside a window that began earlier
C15_Witness ==
    /\ last.exit = 0 /\ ~last.drift /\ last.pre.cache = UA
    /\ last.load > LOAD_THRESHOLD
    /\ last.pre.ts # Absent /\ last.pre.ts < last.at /\ ts = last.pre.ts
\* C12: crash tolerance.  After an invocation was killed between two of its
\* steps, the next invocation that runs to completion and exits 0 leaves the
\* cache file equal to the remote mode, and its target is the one that the
\* drift sync and the target computation give for the files and the remote
\* mode found at its start and its load, at clock values within the run; when
\* the clock did not advance during the run, everything it leaves is what
\* main() computes from those values alone.
AfterKillDone(p) ==
    /\ sched = "killable" /\ obs.finp = p
    /\ loc[p].exit = 0 /\ loc[p].afterKill

C12_CrashTolerance ==
    \A p \in Procs :
       AfterKillDone(p) =>
          LET s0 == loc[p].start
              st == [cache |-> s0.cache, ts |-> s0.ts, alertTs |-> s0.alertTs]
              r == main(cfg, st, s0.remote, s0.at, loc[p].load, TRUE,
                        ~loc[p].setFailed)
          IN /\ cache = remote
             /\ \E t1 \in s0.at..loc[p].endAt : \E t2 \in t1..loc[p].endAt :
                   LET d == DriftSync(cfg, s0.remote, st, t1)
                   IN loc[p].target =
                         TargetMode(cfg, d.cache, d.ts, loc[p].load, t2).target
             /\ loc[p].endAt = s0.at =>
                   /\ loc[p].target = r.target
                   /\ cache = r.cache /\ ts = r.ts
                   /\ alertTs = r.alertTs /\ remote = r.remote

\* the killed invocation had changed the remote mode and not yet the cache
C12_Witness ==
    \E p \in Procs :
       /\ AfterKillDone(p)
       /\ loc[p].start.cache # "" /\ loc[p].start.cache # loc[p].start.remote
       /\ cache = remote

\* C16: transition alerts follow a successful write.  An invocation holds an
\* 'entered'/'exited' alert for send_alert only after its setMode call
\* succeeded and it wrote the cache file with the target (without an
\* overlapping invocation the remote mode and the cache file are then the
\* target); the framing is 'entered' exactly when the target is
\* under_attack; an invocation whose setMode call failed holds no such alert
\* and has handed none to a transport.
Transition == {"entered", "exited"}

C16_TransitionAlertAfterWrite ==
    \A p \in Procs :
       /\ loc[p].kind \in Transition =>
             /\ ~loc[p].setFailed
             /\ loc[p].wrote
             /\ sched # "concurrent" => remote = loc[p].target /\ cache = loc[p].target
             /\ loc[p].kind = "entered" <=> loc[p].target = UA
       /\ loc[p].setFailed =>
             /\ loc[p].kind \notin Transition
             /\ ~loc[p].wrote
             /\ \A i \in 1..Len(loc[p].sentKinds) : loc[p].sentKinds[i] \notin Transition

\* an 'exited' alert is about to be handed to the transport
C16_Witness ==
    \E p \in Procs :
       /\ pc[p] = "al_send" /\ loc[p].kind = "exited"
       /\ loc[p].target = LOW_LOAD_MODE /\ cache = LOW_LOAD_MODE

\* C17: double-fired alert.  With serialized invocations no invocation
\* passes the rate-limit check while another one is between its own check
\* and its record_alert_ts, and two consecutive notifications are at least
\* int(ALERT_COOLDOWN) seconds apart; with two overlapping invocations the
\* state C17_Witness is reachable.
C17_SerializedNoDoubleFire ==
    sched = "serial" =>
       /\ \A p \in Procs : ~loc[p].raced
       /\ Len(obs.sent) = 2 =>
             obs.sent[2].at - obs.sent[1].at >= int(cfg.ALERT_COOLDOWN)

\* both invocations passed the check before either recorded, and two
\* notifications went out within one alert cooldown window
C17_Witness ==
    /\ sched = "concurrent"
    /\ \E p \in Procs : loc[p].raced /\ pc[p] = "al_record"
    /\ Len(obs.sent) = 2
    /\ obs.sent[1].by # obs.sent[2].by
    /\ obs.sent[2].at - obs.sent[1].at < int(cfg.ALERT_COOLDOWN)

\* C18: lost update.  Both invocations have returned 0, no setMode call of
\* theirs failed, and the cache file differs from the remote mode.  This is
\* unreachable without overlapping invocations; where it is reached, the
\* next invocation detects drift and its first send_alert call is the
\* manual-change alert.
LostUpdate ==
    /\ Quiet
    /\ \A p \in Procs : loc[p].exit = 0 /\ ~loc[p].setFailed
    /\ cache # remote

C18_LostUpdate ==
    /\ sched # "concurrent" => ~(obs.finp # 0 /\ loc[obs.finp].exit = 0 /\ cache # remote)
    /\ LostUpdate =>
          \A l \in Loads, setOk \in BOOLEAN :
             LET r == main(cfg, [cache |-> cache, ts |-> ts, alertTs |-> alertTs],
                           remote, now, l, TRUE, setOk)
             IN /\ r.drift
                /\ r.calls # <<>>
                /\ r.calls[1].kind = "manual"

C18_Witness == sched = "concurrent" /\ LostUpdate /\ cache # ""

\* C20: notifications of one invocation.  The statement that an invocation
\* hands at most one notification to a transport:
C20_AtMostOnePerRun == \A p \in Procs : Len(loc[p].sentKinds) <= 1

\* C20 as it holds: an invocation hands at most two notifications to a
\* transport; when it hands two, the first is the manual-change alert, the
\* second the 'entered'/'exited' alert, and at least int(ALERT_COOLDOWN)
\* seconds passed between its record_alert_ts for the first and its
\* rate-limit check for the second; when fewer passed, the manual-change
\* alert is the only one it hands over.
C20_OnePerRunUnlessSlow ==
    \A p \in Procs :
       /\ Len(loc[p].sentKinds) <= 2
       /\ Len(loc[p].sentKinds) = 2 =>
             /\ loc[p].sentKinds[1] = "manual"
             /\ loc[p].sentKinds[2] \in Transition
             /\ loc[p].chkGap # Absent
             /\ loc[p].chkGap >= int(cfg.ALERT_COOLDOWN)
       /\ (loc[p].sentKinds = <<"manual">> /\ loc[p].kind \in Transition
            /\ pc[p] = "end") =>
             /\ loc[p].chkGap # Absent
             /\ loc[p].chkGap < int(cfg.ALERT_COOLDOWN)

\* the manual-change alert went out and the 'exited'/'entered' alert of the
\* same invocation was suppressed
C20_Witness ==
    \E p \in Procs :
       /\ loc[p].sentKinds = <<"manual">> /\ loc[p].kind \in Transition
       /\ pc[p] = "end" /\ loc[p].wrote

\* C19: eventual return to normal.  Once the calm phase has begun (low load,
\* successful remote reads, no operator change), with the clock advancing,
\* the script invoked again and again and cf_set_mode not failing forever,
\* the remote mode and the cache file eventually both equal LOW_LOAD_MODE
\* and stay so.
Normal == remote = LOW_LOAD_MODE /\ cache = LOW_LOAD_MODE

C19_EventuallyNormal == calm ~> []Normal

\* in the calm phase an invocation found the cache at under_attack with no
\* activation timestamp and went back to LOW_LOAD_MODE
C19_Witness ==
    /\ calm /\ Normal
    /\ last.exit = 0
    /\ last.pre.cache = UA /\ last.pre.remote = UA /\ last.pre.ts = Absent
    /\ last.setCalls = <<LOW_LOAD_MODE>>

====
